---- MODULE Spec2Model ----
(***************************************************************************)
(* Model of g10/key-check.c: key_check_all_keysigs and sig_comparison.     *)
(*                                                                         *)
(* A keyblock is a singly linked list of nodes (kb, next).  The check      *)
(* removes duplicate signatures, relocates signatures that verify over     *)
(* another component than the one they follow, and audits self-signatures. *)
(* One action models one loop iteration (or one early return) of the       *)
(* function, so that the intermediate keyblocks are states of the model.   *)
(***************************************************************************)
EXTENDS Integers, Sequences, FiniteSets, TLC

\* Longest keyblock drawn as input (number of nodes, primary key included).
MaxNodes == 4

\* Most nodes of an input keyblock that carry the deleted mark.
MaxDeleted == 1

\* The count of loop iterations kept per node stops growing here.
MaxVisits == 3

\* NULL
Nil == 0

VARIABLES
  pkt,                \* node -> packet of the node (never written by the check)
  goodOver,           \* signature node -> nodes over which it verifies
  only_selected,      \* argument
  only_selfsigs,      \* argument
  kb,                 \* head of the keyblock (the parameter kb)
  next,               \* node -> n->next
  released,           \* nodes given to release_kbnode
  pc,                 \* position in the function
  sigs,               \* the sorted working array of the duplicate pass
  i,                  \* index into sigs (1-based)
  last_i,             \* index of the entry sigs[i] is compared with
  n,                  \* cursor of the placement pass
  n_prevp,            \* the link addressed by n_prevp: 0 is &kb, j is &j->next
  current_component,
  dups,
  missing_issuer,
  reordered,
  bad_signature,
  missing_selfsig,
  modified,
  ret,                \* the value returned, -1 while the function runs
  kb_in,              \* the node sequence at the time of the call
  acct,               \* node -> the counters it has incremented in this run
  looked_up,          \* signatures get_pubkey was called for in this run
  verified,           \* signatures handed to check_signature_over_key_or_uid
  run,                \* 1 during the first call, 2 during a second call
  first,              \* the outcome of the first call, once a second one began
  nomem,              \* xtrycalloc returned NULL in this run
  visits              \* node -> iterations of the placement loop at it, this run

vars == <<pkt, goodOver, only_selected, only_selfsigs, kb, next, released, pc,
          sigs, i, last_i, n, n_prevp, current_component, dups,
          missing_issuer, reordered, bad_signature, missing_selfsig, modified,
          ret, kb_in, acct, looked_up, verified, run, first, nomem, visits>>

inputs == <<pkt, goodOver, only_selected, only_selfsigs>>

counters == <<dups, missing_issuer, reordered, bad_signature>>

----------------------------------------------------------------------------
\* Packet types and packet contents

PacketTypes == {"PUBLIC_KEY", "PUBLIC_SUBKEY", "USER_ID", "SIGNATURE", "OTHER"}

ComponentTypes == {"PUBLIC_KEY", "PUBLIC_SUBKEY", "USER_ID"}

\* Key id of the primary key of the keyblock, pk_keyid (pk).
PrimaryKeyId == 1

IsSig(x) == pkt[x].pkttype = "SIGNATURE"

IsComponent(x) == pkt[x].pkttype \in ComponentTypes

is_deleted_kbnode(x) == pkt[x].deleted

\* Number of MPIs of a signature of the given public-key algorithm:
\* 1 for RSA (1), 2 for DSA (17), 0 for an algorithm that is not known.
pubkey_get_nsig(algo) ==
  CASE algo = 1 -> 1
    [] algo = 17 -> 2
    [] OTHER -> 0

\* 0 when the public-key algorithm can be used, an error code otherwise.
openpgp_pk_test_algo(algo) == IF algo \in {1, 17} THEN 0 ELSE 4

\* 0 when the digest algorithm can be used, an error code otherwise.
openpgp_md_test_algo(algo) == IF algo \in {2, 8} THEN 0 ELSE 5

\* Key ids the issuer lookup finds; get_pubkey returns 0 for them.
KnownKeyIds == {PrimaryKeyId, 2}

get_pubkey(keyid) == IF keyid \in KnownKeyIds THEN 0 ELSE 9

gcry_mpi_cmp(u, v) == IF u < v THEN -1 ELSE IF u > v THEN 1 ELSE 0

----------------------------------------------------------------------------
\* sig_comparison

\* The loop over the MPIs of two signatures with the same number of MPIs:
\* the first non-zero gcry_mpi_cmp from index k on (1-based), 0 if none.
RECURSIVE mpi_loop(_, _, _, _)
mpi_loop(a, b, k, ndataa) ==
  IF k > ndataa THEN 0
  ELSE LET c == gcry_mpi_cmp(a.data[k], b.data[k])
       IN IF c # 0 THEN c ELSE mpi_loop(a, b, k + 1, ndataa)

\* A comparison that stops after the number of MPIs.
sig_cmp_no_mpis(a, b) ==
  IF a.digest_algo < b.digest_algo THEN -1
  ELSE IF a.digest_algo > b.digest_algo THEN 1
  ELSE LET ndataa == pubkey_get_nsig(a.pubkey_algo)
           ndatab == pubkey_get_nsig(b.pubkey_algo)
       IN IF ndataa # ndatab
          THEN (IF ndataa < ndatab THEN -1 ELSE 1)
          ELSE 0

\* A comparison that looks at the first MPI only.
sig_cmp_first_mpi(a, b) ==
  IF a.digest_algo < b.digest_algo THEN -1
  ELSE IF a.digest_algo > b.digest_algo THEN 1
  ELSE LET ndataa == pubkey_get_nsig(a.pubkey_algo)
           ndatab == pubkey_get_nsig(b.pubkey_algo)
       IN IF ndataa # ndatab
          THEN (IF ndataa < ndatab THEN -1 ELSE 1)
          ELSE IF ndataa = 0 THEN 0
          ELSE gcry_mpi_cmp(a.data[1], b.data[1])

\* sig_comparison on two signature packets.
sig_cmp_pkt(a, b) ==
  IF a.digest_algo < b.digest_algo THEN -1
  ELSE IF a.digest_algo > b.digest_algo THEN 1
  ELSE LET ndataa == pubkey_get_nsig(a.pubkey_algo)
           ndatab == pubkey_get_nsig(b.pubkey_algo)
       IN IF ndataa # ndatab
          THEN (IF ndataa < ndatab THEN -1 ELSE 1)
          ELSE mpi_loop(a, b, 1, ndataa)

\* sig_comparison on two nodes of the keyblock.
sig_comparison(an, bn) == sig_cmp_pkt(pkt[an], pkt[bn])

----------------------------------------------------------------------------
\* The linked list

\* The nodes met from node h on by following nx, at most fuel of them.
RECURSIVE Chain(_, _, _)
Chain(nx, h, fuel) ==
  IF h = Nil \/ fuel = 0 THEN <<>>
  ELSE <<h>> \o Chain(nx, nx[h], fuel - 1)

\* The keyblock as the sequence of nodes reachable from the head.  One more
\* node than exists is followed, so that a cycle shows as an over-long list.
KbSeq == Chain(next, kb, MaxNodes + 1)

Range(s) == {s[k] : k \in DOMAIN s}

\* Position of node x in sequence s, 0 when it is not in s.
PosIn(s, x) ==
  IF \E k \in DOMAIN s : s[k] = x
  THEN CHOOSE k \in DOMAIN s : s[k] = x /\ \A j \in 1..(k - 1) : s[j] # x
  ELSE 0

\* What the link l holds: link 0 is the variable kb, link j is j->next.
Deref(l) == IF l = 0 THEN kb ELSE next[l]

\* The loop "for (prevp = &kb, z = kb; z; prevp = &z->next, z = z->next)
\* if (z == target) break;": the link prevp ends at.
RECURSIVE find_prevp(_, _, _, _)
find_prevp(prevp, z, target, fuel) ==
  IF z = Nil \/ z = target \/ fuel = 0 THEN prevp
  ELSE find_prevp(z, next[z], target, fuel - 1)

\* The assignment "*l = v" as it acts on the variable kb and on the next fields.
StoreKb(l, v) == IF l = 0 THEN v ELSE kb

StoreNext(nx, l, v) == IF l = 0 THEN nx ELSE [nx EXCEPT ![l] = v]

----------------------------------------------------------------------------
\* Input keyblocks

\* Signature packets the input keyblocks draw from.  valid stands for
\* sig->flags.checked && sig->flags.valid, which the audit reads together.
\* good tells whether the signature can verify at all: an unsupported
\* algorithm or an issuer key that cannot be found leaves nothing to verify
\* with.
SigCatalog ==
  { [keyid |-> 1, pubkey_algo |-> 1, digest_algo |-> 2, data |-> <<5>>,
     sig_class |-> 19, valid |-> TRUE, good |-> TRUE],
    [keyid |-> 2, pubkey_algo |-> 1, digest_algo |-> 2, data |-> <<5>>,
     sig_class |-> 16, valid |-> FALSE, good |-> TRUE],
    [keyid |-> 1, pubkey_algo |-> 17, digest_algo |-> 8, data |-> <<5, 7>>,
     sig_class |-> 24, valid |-> TRUE, good |-> TRUE],
    [keyid |-> 3, pubkey_algo |-> 1, digest_algo |-> 2, data |-> <<7>>,
     sig_class |-> 16, valid |-> TRUE, good |-> FALSE],
    [keyid |-> 1, pubkey_algo |-> 99, digest_algo |-> 2, data |-> <<>>,
     sig_class |-> 31, valid |-> TRUE, good |-> FALSE],
    [keyid |-> 1, pubkey_algo |-> 1, digest_algo |-> 99, data |-> <<5>>,
     sig_class |-> 31, valid |-> FALSE, good |-> FALSE] }

NoSig == [keyid |-> 0, pubkey_algo |-> 0, digest_algo |-> 0, data |-> <<>>,
          sig_class |-> 0, valid |-> FALSE, good |-> FALSE]

\* The packet of one input node.
InputPkt(type, del, sel, s) ==
  [pkttype |-> type, deleted |-> del, selected |-> sel, keyid |-> s.keyid,
   pubkey_algo |-> s.pubkey_algo, digest_algo |-> s.digest_algo,
   data |-> s.data, sig_class |-> s.sig_class, valid |-> s.valid]

\* The state at the call of key_check_all_keysigs on the keyblock of the
\* nodes 1..len in this order, with everything local to the call reset.
Entry(len) ==
  /\ kb = 1
  /\ next = [k \in 1..len |-> IF k < len THEN k + 1 ELSE Nil]
  /\ released = {}
  /\ pc = "start"
  /\ sigs = <<>>
  /\ i = 0
  /\ last_i = 0
  /\ n = Nil
  /\ n_prevp = 0
  /\ current_component = Nil
  /\ dups = 0
  /\ missing_issuer = 0
  /\ reordered = 0
  /\ bad_signature = 0
  /\ missing_selfsig = 0
  /\ modified = 0
  /\ ret = -1
  /\ kb_in = [k \in 1..len |-> k]
  /\ acct = [k \in 1..len |-> <<>>]
  /\ looked_up = {}
  /\ verified = {}
  /\ run = 1
  /\ first = [ret |-> -1]
  /\ nomem = FALSE
  /\ visits = [k \in 1..len |-> 0]

\* The signature packet a deleted signature node is given: no pass reads it.
DeletedSig == CHOOSE c \in SigCatalog : c.keyid = 3

\* All input keyblocks of at most MaxNodes nodes: the first node is the
\* primary key and no other node is one; at most MaxDeleted nodes after the
\* head carry the deleted mark.  What the code never reads is not varied:
\* the selection flags unless only_selected is set, and the selection flag
\* and signature data of a deleted node.
Init ==
  \E len \in 1..MaxNodes :
    \E types \in [1..len -> PacketTypes] :
      /\ types[1] = "PUBLIC_KEY"
      /\ \A k \in 2..len : types[k] # "PUBLIC_KEY"
      /\ \E del \in {d \in SUBSET (2..len) : Cardinality(d) <= MaxDeleted} :
         LET comps == {k \in 1..len : types[k] \in ComponentTypes}
             sgs == {k \in 1..len : types[k] = "SIGNATURE"}
         IN \E osel \in BOOLEAN, oself \in BOOLEAN :
            \E unsel \in (IF osel THEN SUBSET (comps \ del) ELSE {{}}) :
            \E cat \in [sgs -> SigCatalog] :
            \E good \in [sgs -> SUBSET comps] :
              /\ \A k \in sgs : cat[k].good \/ good[k] = {}
              /\ \A k \in sgs \cap del : cat[k] = DeletedSig
              /\ only_selected = osel
              /\ only_selfsigs = oself
              /\ pkt = [k \in 1..len |->
                          InputPkt(types[k], k \in del, k \notin unsel,
                                   IF k \in sgs THEN cat[k] ELSE NoSig)]
              /\ goodOver = [k \in 1..len |-> IF k \in sgs THEN good[k] ELSE {}]
              /\ Entry(len)

----------------------------------------------------------------------------
\* First pass: duplicates

\* The nodes of sequence s, in order, that are signatures and not deleted.
RECURSIVE live_sigs(_)
live_sigs(s) ==
  IF s = <<>> THEN <<>>
  ELSE (IF ~is_deleted_kbnode(Head(s)) /\ IsSig(Head(s)) THEN <<Head(s)>> ELSE <<>>)
       \o live_sigs(Tail(s))

\* The array SIGS as the two counting loops fill it.
collected == live_sigs(KbSeq)

\* The array left as it was filled, in keyblock order.
unsorted_results(arr) == {arr}

\* What qsort may leave in the array: qsort is not stable, so any arrangement
\* of the collected nodes that is ordered by sig_comparison.
qsort_results(arr) ==
  {f \in [1..Len(arr) -> Range(arr)] :
     /\ \A x, y \in 1..Len(arr) : x # y => f[x] # f[y]
     /\ \A x, y \in 1..Len(arr) : x < y => sig_comparison(f[x], f[y]) <= 0}

\* "if (!nsigs) return 0;"
CheckNoSigs ==
  /\ pc = "start"
  /\ Len(collected) = 0
  /\ ret' = 0
  /\ pc' = "done"
  /\ UNCHANGED <<inputs, kb, next, released, sigs, i, last_i, n, n_prevp,
                 current_component, counters, missing_selfsig, modified,
                 kb_in, acct, looked_up, verified, run, first, nomem,
                 visits>>

\* xtrycalloc fails: log_error and "return 0;"
CheckAllocFail ==
  /\ pc = "start"
  /\ Len(collected) > 0
  /\ nomem' = TRUE
  /\ ret' = 0
  /\ pc' = "done"
  /\ UNCHANGED <<inputs, kb, next, released, sigs, i, last_i, n, n_prevp,
                 current_component, counters, missing_selfsig, modified,
                 kb_in, acct, looked_up, verified, run, first,
                 visits>>

\* The array is filled and sorted; the scan starts at i = 1, last_i = 0
\* (2 and 1 with the 1-based sequences of the model).
CollectSort ==
  /\ pc = "start"
  /\ Len(collected) > 0
  /\ \E f \in qsort_results(collected) : sigs' = f
  /\ last_i' = 1
  /\ i' = 2
  /\ pc' = "dups"
  /\ UNCHANGED <<inputs, kb, next, released, n, n_prevp, current_component,
                 counters, missing_selfsig, modified, ret, kb_in, acct,
                 looked_up, verified, run, first, nomem,
                 visits>>

\* The later entry of the pair.
to_kill_later(li, ii) == ii

\* The entry of the pair (last_i, i) that is removed when the two are equal.
to_kill_of(li, ii) == li

\* One iteration of the scan in which the two entries differ.
DupKeep ==
  /\ pc = "dups"
  /\ i <= Len(sigs)
  /\ sig_comparison(sigs[last_i], sigs[i]) # 0
  /\ last_i' = i
  /\ i' = i + 1
  /\ UNCHANGED <<inputs, kb, next, released, pc, sigs, n, n_prevp,
                 current_component, counters, missing_selfsig, modified, ret,
                 kb_in, acct, looked_up, verified, run, first, nomem,
                 visits>>

\* One iteration of the scan in which the two entries are equal: one of them
\* is unlinked and released.
DupKill ==
  /\ pc = "dups"
  /\ i <= Len(sigs)
  /\ sig_comparison(sigs[last_i], sigs[i]) = 0
  /\ LET to_kill == to_kill_of(last_i, i)
         victim == sigs[to_kill]
         prevp == find_prevp(0, kb, victim, MaxNodes + 1)
     IN /\ kb' = StoreKb(prevp, next[victim])
        /\ next' = [StoreNext(next, prevp, next[victim]) EXCEPT ![victim] = Nil]
        /\ released' = released \cup {victim}
        /\ sigs' = [sigs EXCEPT ![to_kill] = Nil]
  /\ last_i' = i
  /\ i' = i + 1
  /\ dups' = dups + 1
  /\ modified' = 1
  /\ UNCHANGED <<inputs, pc, n, n_prevp, current_component, missing_issuer,
                 reordered, bad_signature, missing_selfsig, ret, kb_in, acct,
                 looked_up, verified, run, first, nomem,
                 visits>>

\* The scan is over: xfree (sigs) and the placement pass starts at the head.
DupEnd ==
  /\ pc = "dups"
  /\ i > Len(sigs)
  /\ sigs' = <<>>
  /\ pc' = "place"
  /\ n' = kb
  /\ n_prevp' = 0
  /\ UNCHANGED <<inputs, kb, next, released, i, last_i, current_component,
                 counters, missing_selfsig, modified, ret, kb_in, acct,
                 looked_up, verified, run, first, nomem,
                 visits>>

----------------------------------------------------------------------------
\* Second pass: placement

\* check_signature_over_key_or_uid (ctrl, issuer, sig, kb, n2->pkt, ...):
\* 0 when signature s verifies over node c.  goodOver holds components only:
\* the code asserts that the node a signature verifies over is one.
check_signature_over_key_or_uid(s, c) == IF c \in goodOver[s] THEN 0 ELSE 8

\* A scan that does not pass over deleted nodes.
RECURSIVE scan_with_deleted(_, _, _, _)
scan_with_deleted(n2, s, cur, fuel) ==
  IF n2 = Nil \/ fuel = 0 THEN Nil
  ELSE IF n2 = cur THEN scan_with_deleted(next[n2], s, cur, fuel - 1)
  ELSE IF check_signature_over_key_or_uid(s, n2) = 0 THEN n2
  ELSE scan_with_deleted(next[n2], s, cur, fuel - 1)

\* The search loop once processed_current_component is 1: the node n2 the loop
\* is left with when it starts this part at node n2.
RECURSIVE scan_from(_, _, _, _)
scan_from(n2, s, cur, fuel) ==
  IF n2 = Nil \/ fuel = 0 THEN Nil
  ELSE IF is_deleted_kbnode(n2) THEN scan_from(next[n2], s, cur, fuel - 1)
  ELSE IF n2 = cur THEN scan_from(next[n2], s, cur, fuel - 1)
  ELSE IF check_signature_over_key_or_uid(s, n2) = 0 THEN n2
  ELSE scan_from(next[n2], s, cur, fuel - 1)

\* A search that tries the current component last.
search_others_first(s, cur) ==
  LET t == scan_from(kb, s, cur, MaxNodes + 1)
  IN IF t # Nil THEN t
     ELSE IF ~is_deleted_kbnode(cur)
             /\ check_signature_over_key_or_uid(s, cur) = 0
       THEN cur
       ELSE Nil

\* A search that only tries the current component.
search_current_only(s, cur) ==
  IF ~is_deleted_kbnode(cur) /\ check_signature_over_key_or_uid(s, cur) = 0
  THEN cur
  ELSE Nil

\* A search that also tries the components marked deleted.
search_deleted_too(s, cur) ==
  IF check_signature_over_key_or_uid(s, cur) = 0
  THEN cur
  ELSE scan_with_deleted(kb, s, cur, MaxNodes + 1)

\* The whole search loop: n2 after it, for signature s under component cur.
search_target(s, cur) ==
  IF ~is_deleted_kbnode(cur) /\ check_signature_over_key_or_uid(s, cur) = 0
  THEN cur
  ELSE scan_from(kb, s, cur, MaxNodes + 1)

\* An insertion behind n2 without the unlink.
relocate_no_unlink(nx, prevp, s, n2) ==
  [[nx EXCEPT ![s] = nx[n2]] EXCEPT ![n2] = s]

\* "*n_prevp = n->next; n->next = n2->next; n2->next = n;" on the next fields.
relocate(nx, prevp, s, n2) ==
  LET nx1 == StoreNext(nx, prevp, nx[s])
      nx2 == [nx1 EXCEPT ![s] = nx1[n2]]
  IN [nx2 EXCEPT ![n2] = s]

\* A loop increment that always takes the link of the node just left.
step_prevp_always(nx, cur, n_next, prevp) == cur

\* The loop increment "n_prevp = (n->next == n_next ? &n->next : n_prevp)".
step_prevp(nx, cur, n_next, prevp) == IF nx[cur] = n_next THEN cur ELSE prevp

\* A loop increment that stays at n.
AdvanceStuck(nx) ==
  /\ n_prevp' = n_prevp
  /\ n' = n
  /\ visits' = [visits EXCEPT ![n] = IF @ < MaxVisits THEN @ + 1 ELSE @]

\* A loop increment that reads n->next after the body.
AdvanceAfterBody(nx) ==
  /\ n_prevp' = n
  /\ n' = nx[n]
  /\ visits' = [visits EXCEPT ![n] = IF @ < MaxVisits THEN @ + 1 ELSE @]

\* The loop increment with nx the next fields the body leaves; n_next was
\* taken from n->next before the body ran.
Advance(nx) ==
  /\ n_prevp' = step_prevp(nx, n, next[n], n_prevp)
  /\ n' = next[n]
  /\ visits' = [visits EXCEPT ![n] = IF @ < MaxVisits THEN @ + 1 ELSE @]

\* A component made current whatever its selection.
component_unfiltered(x) == x

\* The component a node of the given selection makes current.
component_after(x) ==
  IF only_selected /\ ~pkt[x].selected THEN Nil ELSE x

AtNode == pc = "place" /\ n # Nil

\* The iteration reaches the signature case with a current component.
AtSig ==
  /\ AtNode
  /\ ~is_deleted_kbnode(n)
  /\ IsSig(n)
  /\ current_component # Nil

IsSelfIssued(s) == pkt[s].keyid = PrimaryKeyId

\* An issuer step that never looks at only_selfsigs.
issuer_step_all(s) ==
  IF IsSelfIssued(s) THEN "self"
  ELSE IF get_pubkey(pkt[s].keyid) # 0 THEN "missing"
  ELSE "found"

\* An issuer step that goes on when get_pubkey fails.
issuer_step_no_error(s) ==
  IF IsSelfIssued(s) THEN "self"
  ELSE IF only_selfsigs THEN "skip"
  ELSE "found"

\* How the issuer of signature s is settled: "self" when it is the primary
\* key, "skip" for another issuer under only_selfsigs, else what get_pubkey
\* gives, "found" or "missing".
issuer_step(s) ==
  IF IsSelfIssued(s) THEN "self"
  ELSE IF only_selfsigs THEN "skip"
  ELSE IF get_pubkey(pkt[s].keyid) # 0 THEN "missing"
  ELSE "found"

\* The issuer is at hand: the primary key, or a key get_pubkey found.
IssuerResolved ==
  /\ AtSig
  /\ issuer_step(n) \in {"self", "found"}

\* A test of the public-key algorithm alone.
pk_algo_supported(s) == openpgp_pk_test_algo(pkt[s].pubkey_algo) = 0

AlgosSupported(s) ==
  /\ openpgp_pk_test_algo(pkt[s].pubkey_algo) = 0
  /\ openpgp_md_test_algo(pkt[s].digest_algo) = 0

\* get_pubkey is called for n when the iteration gets past "if (only_selfsigs)".
LookupNote ==
  looked_up' = IF issuer_step(n) \in {"found", "missing"}
               THEN looked_up \cup {n} ELSE looked_up

\* "if (is_deleted_kbnode (n)) continue;"
PlaceDeleted ==
  /\ AtNode
  /\ is_deleted_kbnode(n)
  /\ Advance(next)
  /\ UNCHANGED <<inputs, kb, next, released, pc, sigs, i, last_i,
                 current_component, counters, missing_selfsig, modified, ret,
                 kb_in, acct, looked_up, verified, run, first, nomem>>

\* The cases PKT_PUBLIC_KEY, PKT_PUBLIC_SUBKEY and PKT_USER_ID.
PlaceComponent ==
  /\ AtNode
  /\ ~is_deleted_kbnode(n)
  /\ IsComponent(n)
  /\ current_component' = component_after(n)
  /\ Advance(next)
  /\ UNCHANGED <<inputs, kb, next, released, pc, sigs, i, last_i, counters,
                 missing_selfsig, modified, ret, kb_in, acct, looked_up,
                 verified, run, first, nomem>>

\* The default case.
PlaceUnhandled ==
  /\ AtNode
  /\ ~is_deleted_kbnode(n)
  /\ pkt[n].pkttype = "OTHER"
  /\ Advance(next)
  /\ UNCHANGED <<inputs, kb, next, released, pc, sigs, i, last_i,
                 current_component, counters, missing_selfsig, modified, ret,
                 kb_in, acct, looked_up, verified, run, first, nomem>>

\* "if (! current_component) break;"
PlaceUnselected ==
  /\ AtNode
  /\ ~is_deleted_kbnode(n)
  /\ IsSig(n)
  /\ current_component = Nil
  /\ Advance(next)
  /\ UNCHANGED <<inputs, kb, next, released, pc, sigs, i, last_i,
                 current_component, counters, missing_selfsig, modified, ret,
                 kb_in, acct, looked_up, verified, run, first, nomem>>

\* "if (only_selfsigs) continue;" for a signature of another issuer.
PlaceNotSelfsig ==
  /\ AtSig
  /\ issuer_step(n) = "skip"
  /\ Advance(next)
  /\ UNCHANGED <<inputs, kb, next, released, pc, sigs, i, last_i,
                 current_component, counters, missing_selfsig, modified, ret,
                 kb_in, acct, looked_up, verified, run, first, nomem>>

\* get_pubkey fails: "missing_issuer ++; break;"
PlaceMissingIssuer ==
  /\ AtSig
  /\ issuer_step(n) = "missing"
  /\ missing_issuer' = missing_issuer + 1
  /\ acct' = [acct EXCEPT ![n] = Append(@, "missing_issuer")]
  /\ LookupNote
  /\ Advance(next)
  /\ UNCHANGED <<inputs, kb, next, released, pc, sigs, i, last_i,
                 current_component, dups, reordered, bad_signature,
                 missing_selfsig, modified, ret, kb_in, verified, run, first,
                 nomem>>

\* openpgp_pk_test_algo or openpgp_md_test_algo fails: "break;"
PlaceUnsupported ==
  /\ IssuerResolved
  /\ ~AlgosSupported(n)
  /\ LookupNote
  /\ Advance(next)
  /\ UNCHANGED <<inputs, kb, next, released, pc, sigs, i, last_i,
                 current_component, counters, missing_selfsig, modified, ret,
                 kb_in, acct, verified, run, first, nomem>>

\* The signature is verified against the components.
AtVerify == IssuerResolved /\ AlgosSupported(n)

\* "if (current_component == n2)": a good signature where it stands.
PlaceGood ==
  /\ AtVerify
  /\ search_target(n, current_component) = current_component
  /\ verified' = verified \cup {n}
  /\ LookupNote
  /\ Advance(next)
  /\ UNCHANGED <<inputs, kb, next, released, pc, sigs, i, last_i,
                 current_component, counters, missing_selfsig, modified, ret,
                 kb_in, acct, run, first, nomem>>

\* "else if (n2)": a good signature out of order is moved behind n2.
PlaceReorder ==
  /\ AtVerify
  /\ LET n2 == search_target(n, current_component)
     IN /\ n2 # current_component
        /\ n2 # Nil
        /\ kb' = StoreKb(n_prevp, next[n])
        /\ next' = relocate(next, n_prevp, n, n2)
  /\ reordered' = reordered + 1
  /\ modified' = 1
  /\ acct' = [acct EXCEPT ![n] = Append(@, "reordered")]
  /\ verified' = verified \cup {n}
  /\ LookupNote
  /\ Advance(next')
  /\ UNCHANGED <<inputs, released, pc, sigs, i, last_i, current_component,
                 dups, missing_issuer, bad_signature, missing_selfsig, ret,
                 kb_in, run, first, nomem>>

\* "else": no component verifies, a bad signature.
PlaceBad ==
  /\ AtVerify
  /\ search_target(n, current_component) = Nil
  /\ bad_signature' = bad_signature + 1
  /\ acct' = [acct EXCEPT ![n] = Append(@, "bad_signature")]
  /\ verified' = verified \cup {n}
  /\ LookupNote
  /\ Advance(next)
  /\ UNCHANGED <<inputs, kb, next, released, pc, sigs, i, last_i,
                 current_component, dups, missing_issuer, reordered,
                 missing_selfsig, modified, ret, kb_in, run, first, nomem>>

----------------------------------------------------------------------------
\* Third pass: self-signatures, and the return

\* Signature classes that make a self-signature over a component of type t.
selfsig_class(t, class) ==
  \/ t = "PUBLIC_KEY" /\ class \in {31, 32}
  \/ t = "PUBLIC_SUBKEY" /\ class \in {24, 40}
  \/ t = "USER_ID" /\ class \in {16, 17, 18, 19, 48}

\* The audit loop over the node sequence s from position k on, with the
\* loop's current_component cur, has_selfsig has and missing_selfsig cnt.
RECURSIVE audit(_, _, _, _, _)
audit(s, k, cur, has, cnt) ==
  IF k > Len(s) THEN cnt
  ELSE LET x == s[k]
           miss == IF cur # Nil /\ ~has THEN cnt + 1 ELSE cnt
       IN IF is_deleted_kbnode(x) THEN audit(s, k + 1, cur, has, cnt)
          ELSE IF IsComponent(x) THEN audit(s, k + 1, x, FALSE, miss)
          ELSE IF IsSig(x)
            THEN IF cur = Nil \/ has THEN audit(s, k + 1, cur, has, cnt)
                 ELSE IF ~pkt[x].valid THEN audit(s, k + 1, cur, has, cnt)
                 ELSE IF pkt[x].keyid # PrimaryKeyId
                   THEN audit(s, k + 1, cur, has, cnt)
                 ELSE audit(s, k + 1, cur,
                            selfsig_class(pkt[cur].pkttype, pkt[x].sig_class),
                            cnt)
          ELSE audit(s, k + 1, Nil, has, miss)

\* A return that reports every finding as a modification.
return_any_finding(md, du, mi, ba, re) ==
  IF du + mi + ba + re > 0 THEN 1 ELSE 0

\* A return that reports only the removal of duplicates.
return_dups_only(md, du, mi, ba, re) == IF du > 0 THEN 1 ELSE 0

\* "return modified;"
return_value(md, du, mi, ba, re) == md

\* The placement loop is over: the audit runs and the function returns.
Finish ==
  /\ pc = "place"
  /\ n = Nil
  /\ missing_selfsig' = audit(KbSeq, 1, Nil, FALSE, 0)
  /\ ret' = return_value(modified, dups, missing_issuer, bad_signature, reordered)
  /\ pc' = "done"
  /\ UNCHANGED <<inputs, kb, next, released, sigs, i, last_i, n, n_prevp,
                 current_component, counters, modified, kb_in, acct, looked_up,
                 verified, run, first, nomem,
                 visits>>

\* The caller calls the function a second time on the keyblock it was left
\* with, with the same flags.
SecondCall ==
  /\ pc = "done"
  /\ run = 1
  /\ run' = 2
  /\ first' = [ret |-> ret, dups |-> dups, missing_issuer |-> missing_issuer,
               reordered |-> reordered, bad_signature |-> bad_signature,
               missing_selfsig |-> missing_selfsig, nomem |-> nomem]
  /\ pc' = "start"
  /\ sigs' = <<>>
  /\ i' = 0
  /\ last_i' = 0
  /\ n' = Nil
  /\ n_prevp' = 0
  /\ current_component' = Nil
  /\ dups' = 0
  /\ missing_issuer' = 0
  /\ reordered' = 0
  /\ bad_signature' = 0
  /\ missing_selfsig' = 0
  /\ modified' = 0
  /\ ret' = -1
  /\ kb_in' = KbSeq
  /\ acct' = [k \in DOMAIN acct |-> <<>>]
  /\ looked_up' = {}
  /\ verified' = {}
  /\ nomem' = FALSE
  /\ visits' = [k \in DOMAIN visits |-> 0]
  /\ UNCHANGED <<inputs, kb, next, released>>

----------------------------------------------------------------------------

Next ==
  \/ CheckNoSigs
  \/ CheckAllocFail
  \/ CollectSort
  \/ DupKeep
  \/ DupKill
  \/ DupEnd
  \/ PlaceDeleted
  \/ PlaceComponent
  \/ PlaceUnhandled
  \/ PlaceUnselected
  \/ PlaceNotSelfsig
  \/ PlaceMissingIssuer
  \/ PlaceUnsupported
  \/ PlaceGood
  \/ PlaceReorder
  \/ PlaceBad
  \/ Finish

Spec == Init /\ [][Next]_vars

\* One call that is not left waiting: the function is sequential code, so a
\* step that can be taken is taken.
SpecLive == Init /\ [][Next]_vars /\ WF_vars(Next)

\* The function called twice in a row.
NextTwice == Next \/ SecondCall

SpecTwice == Init /\ [][NextTwice]_vars

----------------------------------------------------------------------------
\* Notions the properties are stated with

Done == pc = "done"

\* The signature nodes of the keyblock that are not deleted.
LiveSigNodes == {x \in Range(KbSeq) : IsSig(x) /\ ~is_deleted_kbnode(x)}

\* Two signature nodes carry the same record in the sense of the duplicate
\* relation: same digest algorithm, same number of values, same values.
SameRecord(a, b) ==
  /\ pkt[a].digest_algo = pkt[b].digest_algo
  /\ pubkey_get_nsig(pkt[a].pubkey_algo) = pubkey_get_nsig(pkt[b].pubkey_algo)
  /\ \A k \in 1..pubkey_get_nsig(pkt[a].pubkey_algo) :
       pkt[a].data[k] = pkt[b].data[k]

\* The nearest component that precedes node x in sequence s and is not
\* deleted, Nil when there is none.
NearestComp(s, x) ==
  LET before == {k \in 1..(PosIn(s, x) - 1) :
                   IsComponent(s[k]) /\ ~is_deleted_kbnode(s[k])}
  IN IF before = {} THEN Nil
     ELSE s[CHOOSE k \in before : \A j \in before : j <= k]

\* The components of the keyblock that are not deleted and over which signature
\* x verifies.
LiveTargets(x) ==
  {c \in Range(KbSeq) : ~is_deleted_kbnode(c) /\ c \in goodOver[x]}

----------------------------------------------------------------------------
\* C1: the function returns 1 if and only if, in this run, a duplicate was
\* removed or a signature was relocated (dups > 0 or reordered > 0); missing
\* issuers and bad signatures alone never make the result 1.
C1_ReturnIffDupsOrReordered ==
  Done => /\ ret \in {0, 1}
          /\ (ret = 1) <=> (dups > 0 \/ reordered > 0)

\* A run that counted a bad signature and a missing issuer and returned 0.
C1_Witness ==
  /\ Done
  /\ ret = 0
  /\ bad_signature > 0
  /\ missing_issuer > 0

\* C2: the function returns 0 exactly when the sequence of nodes reachable
\* from the head is the same after the call as before it, and 1 exactly when
\* it differs.
C2_ReturnTellsChange ==
  Done => /\ (ret = 0) <=> (KbSeq = kb_in)
          /\ (ret = 1) <=> (KbSeq # kb_in)

\* A run that only relocated a signature, and one is told so.
C2_Witness ==
  /\ Done
  /\ ret = 1
  /\ dups = 0
  /\ Len(KbSeq) = Len(kb_in)
  /\ KbSeq # kb_in

Checkable(x) ==
  /\ \/ IsSelfIssued(x)
     \/ ~only_selfsigs /\ pkt[x].keyid \in KnownKeyIds
  /\ AlgosSupported(x)

\* C4 as claimed: every remaining signature that verifies against exactly one
\* component follows that component with only signatures between the two.
C4_PlacedAfterTarget ==
  Done => \A x \in LiveSigNodes : \A c \in LiveTargets(x) :
            LiveTargets(x) = {c} =>
              /\ PosIn(KbSeq, c) < PosIn(KbSeq, x)
              /\ \A k \in (PosIn(KbSeq, c) + 1)..(PosIn(KbSeq, x) - 1) :
                   IsSig(KbSeq[k])

\* C4 as amended: after a check that was not cut short by the allocation
\* failure, every remaining non-deleted signature that the pass verifies
\* (issuer at hand, algorithms supported, and under only_selected the
\* component it ends under is selected) and that verifies against exactly one
\* non-deleted component has that component as the nearest non-deleted
\* component before it.
C4_CheckedSigsPlaced ==
  (Done /\ ~nomem) =>
    \A x \in LiveSigNodes : \A c \in LiveTargets(x) :
      ( /\ LiveTargets(x) = {c}
        /\ Checkable(x)
        /\ NearestComp(KbSeq, x) # Nil
        /\ only_selected => pkt[NearestComp(KbSeq, x)].selected )
      => NearestComp(KbSeq, x) = c

\* A relocated signature with exactly one target, under a selected component.
C4_Witness ==
  /\ Done
  /\ only_selected
  /\ \E x \in LiveSigNodes :
       /\ acct[x] = <<"reordered">>
       /\ Cardinality(LiveTargets(x)) = 1
       /\ NearestComp(kb_in, x) \notin goodOver[x]

\* C5: no node leaves the keyblock other than a duplicate signature: every
\* node of the keyblock at the call is still in it, or is a non-deleted
\* signature of which an equal record is still in it; no node is added.
C5_Conservation ==
  /\ Range(KbSeq) \subseteq Range(kb_in)
  /\ \A x \in Range(kb_in) :
       \/ x \in Range(KbSeq)
       \/ /\ IsSig(x)
          /\ ~is_deleted_kbnode(x)
          /\ \E y \in LiveSigNodes : y # x /\ SameRecord(x, y)

\* A duplicate was removed while a bad signature stayed.
C5_Witness ==
  /\ Done
  /\ released # {}
  /\ bad_signature > 0
  /\ \E x \in LiveSigNodes : acct[x] = <<"bad_signature">>

\* C6 as claimed: a second run returns 0 and leaves all four counters zero.
C6_SecondRunAllZero ==
  (Done /\ run = 2) =>
    /\ ret = 0
    /\ dups = 0
    /\ missing_issuer = 0
    /\ bad_signature = 0
    /\ reordered = 0

\* C6 as amended: when the first run was not cut short by the allocation
\* failure, a second run returns 0 with no duplicate removed and no signature
\* reordered; its missing-issuer and bad-signature counters are those of the
\* first run unless the second run is itself cut short.
C6_SecondRunUnmodified ==
  (Done /\ run = 2 /\ ~first.nomem) =>
    /\ ret = 0
    /\ dups = 0
    /\ reordered = 0
    /\ KbSeq = kb_in
    /\ ~nomem => /\ missing_issuer = first.missing_issuer
                 /\ bad_signature = first.bad_signature

\* A second run after a first one that reordered and found a bad signature.
C6_Witness ==
  /\ Done
  /\ run = 2
  /\ ~first.nomem
  /\ ~nomem
  /\ first.ret = 1
  /\ first.reordered > 0
  /\ bad_signature > 0

\* C7: under only_selfsigs no signature of another issuer is relocated,
\* counted as bad or as missing its issuer, or verified, and get_pubkey is
\* never called.
C7_SelfsigsOnly ==
  only_selfsigs =>
    /\ looked_up = {}
    /\ \A x \in DOMAIN pkt :
         (IsSig(x) /\ ~IsSelfIssued(x)) => (acct[x] = <<>> /\ x \notin verified)

\* Under only_selfsigs a misplaced signature of another issuer was passed over
\* while a self-signature was relocated.
C7_Witness ==
  /\ Done
  /\ only_selfsigs
  /\ reordered > 0
  /\ \E x \in LiveSigNodes :
       /\ ~IsSelfIssued(x)
       /\ LiveTargets(x) # {}
       /\ NearestComp(KbSeq, x) \notin goodOver[x]
       /\ pkt[NearestComp(KbSeq, x)].selected

\* The signatures that stood under an unselected component at the call.
UnderUnselected ==
  {x \in Range(kb_in) :
     /\ IsSig(x)
     /\ NearestComp(kb_in, x) # Nil
     /\ ~pkt[NearestComp(kb_in, x)].selected}

\* C8 as claimed: under only_selected a signature whose nearest preceding
\* component is not selected is never evaluated and adds to no counter,
\* the duplicates counter included.
C8_UnselectedNoCounter ==
  only_selected =>
    \A x \in UnderUnselected :
      /\ x \notin released
      /\ acct[x] = <<>>
      /\ x \notin verified
      /\ x \notin looked_up

\* C8 as amended: such a signature is never evaluated and adds nothing to the
\* missing-issuer, bad-signature and reordered counters; the duplicate pass
\* is not gated by the selection and may still remove it.
C8_UnselectedNotEvaluated ==
  only_selected =>
    \A x \in UnderUnselected :
      /\ acct[x] = <<>>
      /\ x \notin verified
      /\ x \notin looked_up

\* A misplaced, checkable signature under an unselected component was left
\* alone while another signature was verified.
C8_Witness ==
  /\ Done
  /\ only_selected
  /\ verified # {}
  /\ \E x \in UnderUnselected \cap LiveSigNodes :
       /\ Checkable(x)
       /\ LiveTargets(x) # {}
       /\ NearestComp(kb_in, x) \notin goodOver[x]

\* Sequence s without its element x.
Without(s, x) ==
  [k \in 1..(Len(s) - 1) |-> IF k < PosIn(s, x) THEN s[k] ELSE s[k + 1]]

\* Sequence s with x put directly behind its element t.
InsertAfter(s, t, x) ==
  [k \in 1..(Len(s) + 1) |->
     IF k <= PosIn(s, t) THEN s[k]
     ELSE IF k = PosIn(s, t) + 1 THEN x
     ELSE s[k - 1]]

\* The first node of the keyblock, in its order, that is in set S.
FirstOf(S) ==
  KbSeq[CHOOSE k \in DOMAIN KbSeq :
          KbSeq[k] \in S /\ \A j \in 1..(k - 1) : KbSeq[j] \notin S]

\* The placement pass is at a signature it verifies, which does not verify
\* over the current component but over another component that is not deleted.
C9_Misplaced ==
  /\ AtSig
  /\ Checkable(n)
  /\ current_component \notin goodOver[n]
  /\ LiveTargets(n) # {}

\* C9: a verified signature that fails over its current component and
\* verifies over another non-deleted component is taken out and put directly
\* behind the first such component of the keyblock; reordered grows by one and
\* no other node changes its place among the others.
C9_RelocatedBehindFirstTarget ==
  [][C9_Misplaced =>
       /\ KbSeq' = InsertAfter(Without(KbSeq, n), FirstOf(LiveTargets(n)), n)
       /\ reordered' = reordered + 1
       /\ modified' = 1
       /\ dups' = dups
       /\ bad_signature' = bad_signature
       /\ missing_issuer' = missing_issuer]_vars

\* A signature with two targets elsewhere was relocated behind one of them.
C9_Witness ==
  /\ reordered > 0
  /\ \E x \in LiveSigNodes :
       /\ acct[x] = <<"reordered">>
       /\ Cardinality(LiveTargets(x)) >= 2
       /\ NearestComp(kb_in, x) \notin goodOver[x]
       /\ NearestComp(KbSeq, x) = FirstOf(LiveTargets(x))

\* A non-deleted signature behind component c that the audit accepts as a
\* self-signature of c.
HasAcceptedSelfsig(c) ==
  \E x \in LiveSigNodes :
    /\ NearestComp(KbSeq, x) = c
    /\ pkt[x].valid
    /\ IsSelfIssued(x)
    /\ selfsig_class(pkt[c].pkttype, pkt[x].sig_class)

\* C10: after the check the missing-self-signature counter is the number of
\* non-deleted components of the final keyblock without an accepted
\* self-signature among the signatures that follow them.
C10_AuditCountsEveryComponent ==
  Done =>
    missing_selfsig =
      Cardinality({c \in Range(KbSeq) :
                     /\ IsComponent(c)
                     /\ ~is_deleted_kbnode(c)
                     /\ ~HasAcceptedSelfsig(c)})

\* The placement pass is at a signature it processes: a component is current,
\* the issuer is at hand and the algorithms are supported.
Processed == AtSig /\ Checkable(n)

\* C11: a processed signature that verifies over no non-deleted component of
\* the keyblock stays where it is and stays in the keyblock, the bad-signature
\* counter grows by exactly one, and neither modified nor any other counter
\* changes in that step.
C11_BadSignatureLeftInPlace ==
  [][(Processed /\ LiveTargets(n) = {}) =>
       /\ KbSeq' = KbSeq
       /\ released' = released
       /\ pkt' = pkt
       /\ bad_signature' = bad_signature + 1
       /\ modified' = modified
       /\ dups' = dups
       /\ reordered' = reordered
       /\ missing_issuer' = missing_issuer]_vars

\* A run whose only finding is a bad signature, one that verifies over a
\* deleted component alone: it is where it was and the result is 0.
C11_Witness ==
  /\ Done
  /\ ret = 0
  /\ bad_signature = 1
  /\ missing_issuer = 0
  /\ \E x \in LiveSigNodes :
       /\ acct[x] = <<"bad_signature">>
       /\ goodOver[x] # {}
       /\ PosIn(KbSeq, x) = PosIn(kb_in, x)

\* The placement pass is at a signature under a current component whose
\* issuer is another key that the lookup does not find, and only_selfsigs is
\* not set.
IssuerNotFound ==
  /\ AtSig
  /\ ~IsSelfIssued(n)
  /\ ~only_selfsigs
  /\ pkt[n].keyid \notin KnownKeyIds

\* What the step at such a signature does.
C12_Step ==
  IssuerNotFound =>
    /\ missing_issuer' = missing_issuer + 1
    /\ looked_up' = looked_up \cup {n}
    /\ verified' = verified
    /\ KbSeq' = KbSeq
    /\ bad_signature' = bad_signature
    /\ reordered' = reordered
    /\ dups' = dups
    /\ modified' = modified
    /\ n' = next[n]

\* What holds of the signatures counted as missing their issuer.
C12_State ==
  /\ \A x \in DOMAIN pkt :
       (acct[x] # <<>> /\ acct[x][1] = "missing_issuer") =>
         /\ acct[x] = <<"missing_issuer">>
         /\ visits[x] = 1
         /\ x \notin verified
  /\ (Done /\ dups = 0 /\ reordered = 0) => (KbSeq = kb_in /\ ret = 0)

\* C12: at a signature under a current component whose issuer is not the
\* primary key and is not found by the lookup, with only_selfsigs not set, the
\* missing-issuer counter grows by exactly one, the lookup is made once, the
\* signature is not verified, not moved and not counted as bad, and the loop
\* goes on with the next node; a run with no removed duplicate and no
\* reordered signature leaves the keyblock as it was and returns 0.
C12_MissingIssuerSkipped == [](C12_State) /\ [][C12_Step]_vars

\* A run whose only finding is a missing issuer: the keyblock is as it was,
\* the result is 0, and a signature behind that one was verified.
C12_Witness ==
  /\ Done
  /\ ret = 0
  /\ missing_issuer = 1
  /\ bad_signature = 0
  /\ KbSeq = kb_in
  /\ \E x, y \in LiveSigNodes :
       /\ acct[x] = <<"missing_issuer">>
       /\ x \in looked_up
       /\ PosIn(KbSeq, x) < PosIn(KbSeq, y)
       /\ y \in verified

\* The run was cut short by the allocation failure and nothing was repaired:
\* the keyblock is as it was, no node was released, no loop of the later
\* passes ran and every counter is zero.
NoRepairAfterNoMem ==
  (Done /\ nomem) =>
    /\ KbSeq = kb_in
    /\ released = {}
    /\ \A x \in DOMAIN visits : visits[x] = 0
    /\ verified = {}
    /\ looked_up = {}
    /\ dups + missing_issuer + reordered + bad_signature + missing_selfsig = 0

\* C13: when the allocation of the signature array fails the check stops
\* without any repair, and the value returned differs from the one a check
\* returns that completed and found nothing to modify.
C13_AllocFailureSurfaced ==
  /\ NoRepairAfterNoMem
  /\ (Done /\ nomem) => ret # return_value(0, 0, 0, 0, 0)

\* One of the two algorithms of signature x is not supported.
Unsupported(x) ==
  \/ openpgp_pk_test_algo(pkt[x].pubkey_algo) # 0
  \/ openpgp_md_test_algo(pkt[x].digest_algo) # 0

\* What the step at a signature under a current component does when one of
\* its two algorithms is not supported.
C14_Step ==
  (AtSig /\ Unsupported(n)) =>
    /\ verified' = verified
    /\ KbSeq' = KbSeq
    /\ bad_signature' = bad_signature
    /\ reordered' = reordered
    /\ modified' = modified
    /\ n' = next[n]

\* What holds of the signatures with an unsupported algorithm.
C14_State ==
  \A x \in DOMAIN pkt :
    (IsSig(x) /\ Unsupported(x)) =>
      /\ x \notin verified
      /\ \A k \in DOMAIN acct[x] : acct[x][k] \notin {"reordered", "bad_signature"}

\* C14: a signature whose public-key algorithm or digest algorithm is not
\* supported is never verified over a component, never relocated and never
\* counted as a bad signature, and the loop goes on with the next node.
C14_UnsupportedNotEvaluated == [](C14_State) /\ [][C14_Step]_vars

\* A self-signature with an unsupported digest algorithm was passed over and
\* a signature behind it was verified.
C14_Witness ==
  /\ Done
  /\ \E x, y \in LiveSigNodes :
       /\ IsSelfIssued(x)
       /\ openpgp_md_test_algo(pkt[x].digest_algo) # 0
       /\ visits[x] = 1
       /\ acct[x] = <<>>
       /\ PosIn(KbSeq, x) < PosIn(KbSeq, y)
       /\ y \in verified

\* The node that follows x in sequence s, Nil when x is the last one.
Successor(s, x) ==
  IF PosIn(s, x) < Len(s) THEN s[PosIn(s, x) + 1] ELSE Nil

\* The nodes the placement loop still has ahead, n included.
Ahead == Range(Chain(next, n, MaxNodes + 1))

\* In the placement pass the link n_prevp holds n, and every node of the
\* keyblock the loop has not been at yet is still ahead of it.
C15_State ==
  pc = "place" =>
    /\ Deref(n_prevp) = n
    /\ n # Nil => n \in Range(KbSeq)
    /\ \A x \in Range(KbSeq) : visits[x] = 0 => x \in Ahead

\* An iteration of the placement loop keeps every node of the keyblock in
\* it, takes out n alone when it unlinks, and goes on with the node that
\* followed n before the iteration.
C15_Step ==
  (pc = "place" /\ n # Nil) =>
    /\ n' = Successor(KbSeq, n)
    /\ Range(KbSeq') = Range(KbSeq)
    /\ Without(KbSeq', n) = Without(KbSeq, n)

\* C15: at the start of every iteration of the placement pass *n_prevp is n;
\* an unlink takes exactly n out of the list; after an iteration, with or
\* without a relocation, the next node visited is the one that followed n
\* before it; and no node of the list is skipped by the traversal.
C15_CursorInvariant == [](C15_State) /\ [][C15_Step]_vars

\* A run that relocated one signature towards the tail, which the loop met
\* a second time, and one towards the head, and was at every node.
C15_Witness ==
  /\ Done
  /\ reordered = 2
  /\ \A z \in Range(KbSeq) : visits[z] >= 1
  /\ \E x, y \in LiveSigNodes :
       /\ acct[x] = <<"reordered">>
       /\ visits[x] = 2
       /\ acct[y] = <<"reordered">>
       /\ visits[y] = 1

\* The nodes of sequence s, in order, that are components.
RECURSIVE ComponentsOf(_)
ComponentsOf(s) ==
  IF s = <<>> THEN <<>>
  ELSE (IF IsComponent(Head(s)) THEN <<Head(s)>> ELSE <<>>)
       \o ComponentsOf(Tail(s))

\* C16: in every state of the check the keyblock is an acyclic list whose
\* head is the primary-key node; it holds exactly once every node of the
\* keyblock at the call that was not removed as a duplicate, and no other
\* node; the components are in the order they had at the call, and exactly
\* one node is a primary key.
C16_WellFormed ==
  /\ Len(KbSeq) <= MaxNodes
  /\ \A j, k \in DOMAIN KbSeq : j # k => KbSeq[j] # KbSeq[k]
  /\ kb # Nil
  /\ pkt[kb].pkttype = "PUBLIC_KEY"
  /\ kb = kb_in[1]
  /\ Range(KbSeq) = Range(kb_in) \ released
  /\ ComponentsOf(KbSeq) = ComponentsOf(kb_in)
  /\ Cardinality({x \in Range(KbSeq) : pkt[x].pkttype = "PUBLIC_KEY"}) = 1

\* The placement pass is under way after the removal of a duplicate and the
\* relocation of a signature.
C16_Witness ==
  /\ pc = "place"
  /\ n # Nil
  /\ dups > 0
  /\ reordered > 0
  /\ Len(ComponentsOf(KbSeq)) >= 2

\* The placement loop is at no node more than twice in a run.
AtMostTwice == \A x \in DOMAIN visits : visits[x] <= 2

\* C17: every call runs to completion, whatever the keyblock, the lookup and
\* the verification give: the function returns, and the placement loop is
\* at a node at most twice, the second time for a signature it relocated
\* behind a component further down the list.
C17_Terminates == <>Done /\ []AtMostTwice

\* A run that returned after it met a signature a second time, the signature
\* having been relocated behind a component further down the list, and after
\* a search that went back to the head of the keyblock and found nothing.
C17_Witness ==
  /\ Done
  /\ ret = 1
  /\ bad_signature > 0
  /\ \E x \in LiveSigNodes :
       /\ visits[x] = 2
       /\ PosIn(kb_in, x) < PosIn(kb_in, NearestComp(KbSeq, x))

\* The signature nodes of the keyblock at the call that are not deleted.
LiveSigsIn == {x \in Range(kb_in) : IsSig(x) /\ ~is_deleted_kbnode(x)}

\* The group of signature x: the nodes of LiveSigsIn with the same record.
GroupOf(x) == {y \in LiveSigsIn : SameRecord(x, y)}

Groups == {GroupOf(x) : x \in LiveSigsIn}

\* The duplicate scan ran to its end.
ScanOver == pc \in {"place", "done"} /\ ~nomem /\ LiveSigsIn # {}

\* After the scan one node of every group is left and the counter is the
\* number of nodes removed, the sum of k - 1 over the groups of k nodes.
C18_State ==
  ScanOver =>
    /\ \A g \in Groups : Cardinality(g \ released) = 1
    /\ released \subseteq LiveSigsIn
    /\ dups = Cardinality(released)
    /\ dups = Cardinality(LiveSigsIn) - Cardinality(Groups)

\* An iteration of the scan at two equal entries unlinks and releases the
\* earlier entry of the array, keeps the later one in the keyblock and goes on
\* from it.
C18_Step ==
  (pc = "dups" /\ i <= Len(sigs) /\ SameRecord(sigs[last_i], sigs[i])) =>
    /\ released' = released \cup {sigs[last_i]}
    /\ KbSeq' = Without(KbSeq, sigs[last_i])
    /\ sigs[i] \in Range(KbSeq')
    /\ dups' = dups + 1
    /\ last_i' = i
    /\ i' = i + 1

CmpValues == {5, 7}

CmpPackets ==
  UNION {{[keyid |-> k, sig_class |-> c, digest_algo |-> d, pubkey_algo |-> al,
           data |-> dt] :
            k \in {1, 2}, c \in {16, 19}, d \in {2, 8},
            dt \in [1..pubkey_get_nsig(al) -> CmpValues]} :
         al \in {1, 17, 99}}

\* What the comparison is said to order by: the digest algorithm, the number
\* of values, the values.
CmpKey(a) ==
  <<a.digest_algo, pubkey_get_nsig(a.pubkey_algo)>>
    \o [k \in 1..pubkey_get_nsig(a.pubkey_algo) |-> a.data[k]]

\* u comes before v in the order by the first entry in which they differ.
LexLess(u, v) ==
  \E k \in DOMAIN u \cap DOMAIN v :
    /\ u[k] < v[k]
    /\ \A j \in 1..(k - 1) : u[j] = v[j]

Sign(x) == IF x < 0 THEN -1 ELSE IF x > 0 THEN 1 ELSE 0

\* The comparison on the packets of CmpPackets: antisymmetric in sign,
\* transitive, negative exactly when the first packet comes first by digest
\* algorithm, number of values and values, and zero exactly when these agree.
CmpIsPreorder ==
  /\ \A a, b \in CmpPackets :
       /\ Sign(sig_cmp_pkt(a, b)) = 0 - Sign(sig_cmp_pkt(b, a))
       /\ (sig_cmp_pkt(a, b) < 0) <=> LexLess(CmpKey(a), CmpKey(b))
       /\ (sig_cmp_pkt(a, b) = 0) <=> (CmpKey(a) = CmpKey(b))
  /\ \A a, b, c \in CmpPackets :
       (sig_cmp_pkt(a, b) <= 0 /\ sig_cmp_pkt(b, c) <= 0)
         => sig_cmp_pkt(a, c) <= 0

\* C19: sig_comparison is a total preorder that orders by digest algorithm,
\* then by the number of values of the public-key algorithm, then by the
\* values; it is 0 exactly when these agree, whatever the issuers and the
\* classes; and of two signatures of the keyblock that agree in them one is
\* removed once the duplicate scan has run.
C19_DuplicateRelation ==
  /\ CmpIsPreorder
  /\ \A a, b \in {x \in DOMAIN pkt : IsSig(x)} :
       (sig_comparison(a, b) = 0) <=> SameRecord(a, b)
  /\ ScanOver =>
       \A a, b \in LiveSigsIn :
         (a # b /\ SameRecord(a, b)) => (a \in released \/ b \in released)

\* Of two signatures that differ in issuer and class and agree in the
\* record one was removed as a duplicate.
C19_Witness ==
  /\ Done
  /\ \E a \in released, b \in LiveSigNodes :
       /\ SameRecord(a, b)
       /\ pkt[a].keyid # pkt[b].keyid
       /\ pkt[a].sig_class # pkt[b].sig_class

\* The nodes that incremented counter c in this run.
CountedAs(c) == {x \in DOMAIN acct : acct[x] = <<c>>}

\* Every node incremented at most one of the three counters, at most once,
\* the counters are the numbers of the nodes that incremented them, and
\* their sum is at most the number of signatures in the keyblock.
SingleAccounting ==
  /\ \A x \in DOMAIN acct : Len(acct[x]) <= 1
  /\ \A x \in DOMAIN acct : acct[x] # <<>> => x \in LiveSigNodes
  /\ reordered = Cardinality(CountedAs("reordered"))
  /\ bad_signature = Cardinality(CountedAs("bad_signature"))
  /\ missing_issuer = Cardinality(CountedAs("missing_issuer"))
  /\ reordered + bad_signature + missing_issuer <= Cardinality(LiveSigNodes)

\* The placement loop is at a node it has been at before.
SecondVisit == pc = "place" /\ n # Nil /\ visits[n] >= 1

\* The iteration leaves the keyblock and the counters as they are.
NothingCounted == KbSeq' = KbSeq /\ UNCHANGED counters /\ modified' = modified

\* C20 as claimed: single accounting, and a signature met a second time is
\* classified as correctly placed: it is verified and found good over the
\* current component.
C20_SecondVisitGood ==
  /\ []SingleAccounting
  /\ [][SecondVisit =>
          /\ Processed
          /\ current_component \in goodOver[n]
          /\ NothingCounted]_vars

\* C20 as amended: within one run every signature node increments at most one
\* of reordered, bad_signature and missing_issuer, at most once, so their sum
\* never exceeds the number of signatures left; a signature relocated towards
\* the tail and met a second time changes no counter: it is found good over
\* the current component, or, under only_selected when the component it was
\* put behind is not selected, it is not evaluated.
C20_SingleAccounting ==
  /\ []SingleAccounting
  /\ [][SecondVisit =>
          /\ IsSig(n)
          /\ NothingCounted
          /\ \/ Processed /\ current_component \in goodOver[n]
             \/ /\ only_selected
                /\ current_component = Nil
                /\ ~pkt[NearestComp(KbSeq, n)].selected
                /\ verified' = verified]_vars

\* Under only_selected a signature was relocated behind a component that is
\* not selected, was met again there and counted once.
C20_Witness ==
  /\ Done
  /\ only_selected
  /\ \E x \in LiveSigNodes :
       /\ visits[x] = 2
       /\ acct[x] = <<"reordered">>
       /\ ~pkt[NearestComp(KbSeq, x)].selected

====
